---- MODULE Spec2Model ----
(***************************************************************************)
(* Model of collect_traffic.py: one run of main() loads traffic_data.json, *)
(* fetches views, clones, repository metadata and referrers, merges them   *)
(* into the loaded store, records the daily snapshots, prunes entries      *)
(* older than one year and rewrites the file.                              *)
(*                                                                         *)
(* A timestamp string "YYYY-MM-DDTHH:MM:SSZ" is the pair <<day, tod>>: its *)
(* first 10 characters are the day number, the rest the time of day.  The  *)
(* fields have a fixed width, so the order of the strings is the           *)
(* lexicographic order of the pairs.                                       *)
(*                                                                         *)
(* A JSON document is [kind, val, bad]: kind "dict" is a top-level object  *)
(* with the list-valued keys in val and the keys holding something that is *)
(* not a list in bad; kind "list" is any other top-level JSON value.       *)
(***************************************************************************)
EXTENDS Integers, Sequences, FiniteSets, TLC

VARIABLES
  now,           \* the UTC clock, <<day, tod>>
  START_DATE,    \* <<>> when unset, <<day>> when set (line 9)
  file,          \* the content of traffic_data.json on disk
  api,           \* what the remote API currently answers
  runs,          \* number of runs of main() started so far
  pc,            \* position of the running main(), "idle" between runs
  db,            \* main's db
  views_data,    \* main's views_data
  clones_data,   \* main's clones_data
  repo_data,     \* main's repo_data
  ref_data,      \* main's ref_data
  today,         \* main's today (line 76)
  one_year_ago,  \* main's one_year_ago (line 91)
  exit_code,     \* exit status of the last finished run, -1 while none
  failed_at,     \* the statement that raised in the last finished run
  pre,           \* the file's content when the current or last run started
  prev,          \* outcome, today and one_year_ago of the run before
  merged         \* results of successive merge_data calls (SpecMerge only)

vars == <<now, START_DATE, file, api, runs, pc, db, views_data, clones_data,
          repo_data, ref_data, today, one_year_ago, exit_code, failed_at,
          pre, prev, merged>>

(***************************************************************************)
(* Bounds and program constants                                            *)
(***************************************************************************)
RetentionDays == 365

MaxDayTicks == 1

MaxRuns == 2

MaxTod == 1

MaxBatch == 1

MaxExisting == 2

MaxIncoming == 2

FirstDay == RetentionDays + 1

SeriesKeys == <<"views", "clones", "stars", "forks", "referrers">>

EmptyDict == [k \in {} |-> <<>>]

SeqsUpTo(S, n) == UNION {[1..k -> S] : k \in 0..n}

(***************************************************************************)
(* Timestamps                                                              *)
(***************************************************************************)
TsLess(a, b) == a[1] < b[1] \/ (a[1] = b[1] /\ a[2] < b[2])

TsGeq(a, b) == ~TsLess(a, b)

DayPortion(ts) == ts[1]

DayStart(t) == <<t[1], 0>>

DayStartMinus(t, days) == <<t[1] - days, 0>>

Stamp(t) == [day |-> t[1], time |-> t[2]]

(***************************************************************************)
(* Python dict and list helpers                                            *)
(***************************************************************************)
DictGet(d, k, default) == IF k \in DOMAIN d THEN d[k] ELSE default

DictSet(d, k, v) == [x \in (DOMAIN d) \cup {k} |-> IF x = k THEN v ELSE d[x]]

RECURSIVE InsertByTs(_, _)
InsertByTs(sorted, e) ==
  IF sorted = <<>> THEN <<e>>
  ELSE IF TsLess(e.timestamp, sorted[Len(sorted)].timestamp)
       THEN Append(InsertByTs(SubSeq(sorted, 1, Len(sorted) - 1), e),
                   sorted[Len(sorted)])
       ELSE Append(sorted, e)

SortedByTsSkipped(s) == s

RECURSIVE SortedByTs(_)
SortedByTs(s) ==
  IF s = <<>> THEN <<>>
  ELSE InsertByTs(SortedByTs(SubSeq(s, 1, Len(s) - 1)), s[Len(s)])

MapPutAppend(m, e) == Append(m, e)

RECURSIVE MapPut(_, _)
MapPut(m, e) ==
  IF m = <<>> THEN <<e>>
  ELSE IF m[1].timestamp = e.timestamp THEN <<e>> \o Tail(m)
       ELSE <<m[1]>> \o MapPut(Tail(m), e)

RECURSIVE MapFromList(_, _)
MapFromList(m, s) ==
  IF s = <<>> THEN m ELSE MapFromList(MapPut(m, s[1]), Tail(s))

AdmittedInclusive(entry) ==
  ~(START_DATE # <<>> /\ DayPortion(entry.timestamp) <= START_DATE[1])

AdmittedAlways(entry) == TRUE

Admitted(entry) ==
  ~(START_DATE # <<>> /\ DayPortion(entry.timestamp) < START_DATE[1])

Projected(entry) ==
  [timestamp |-> entry.timestamp, count |-> entry.count,
   uniques |-> entry.uniques]

RECURSIVE MapUpdate(_, _)
MapUpdate(m, s) ==
  IF s = <<>> THEN m
  ELSE MapUpdate(IF Admitted(s[1]) THEN MapPut(m, Projected(s[1])) ELSE m,
                 Tail(s))

merge_data(existing, new_data, key) ==
  LET data_map == MapFromList(<<>>, DictGet(existing.val, key, <<>>))
  IN  SortedByTs(MapUpdate(data_map, DictGet(new_data, key, <<>>)))

MergeRaises(existing, key) == existing.kind # "dict" \/ key \in existing.bad

(***************************************************************************)
(* The data file                                                           *)
(***************************************************************************)
Doc(kind, val, bad) == [kind |-> kind, val |-> val, bad |-> bad]

MissingFile == Doc("missing", EmptyDict, {})

InvalidFile == Doc("invalid", EmptyDict, {})

TruncatedFile == Doc("truncated", EmptyDict, {})

ListFile == Doc("list", EmptyDict, {})

BadSeriesFile == Doc("dict", ("clones" :> <<>>), {"views"})

CutoffDay == FirstDay - RetentionDays

OldStore ==
  Doc("dict",
      ("views" :> <<[timestamp |-> <<CutoffDay - 1, 0>>, count |-> 3,
                     uniques |-> 2],
                    [timestamp |-> <<CutoffDay, 0>>, count |-> 3,
                     uniques |-> 2]>>
       @@ "clones" :> <<>>
       @@ "stars" :> <<[timestamp |-> <<CutoffDay, 0>>, count |-> 7],
                       [timestamp |-> <<FirstDay - 1, 0>>, count |-> 9]>>
       @@ "updated_at" :> [day |-> FirstDay - 1, time |-> 1]),
      {})

BadSnapshotFile ==
  Doc("dict", ("views" :> <<>> @@ "clones" :> <<>>), {"stars"})

InitFiles ==
  {MissingFile, InvalidFile, ListFile, BadSeriesFile, BadSnapshotFile,
   OldStore}

DefaultStore == Doc("dict", ("views" :> <<>> @@ "clones" :> <<>>), {})

LoadStore(f) ==
  IF f.kind = "missing" THEN DefaultStore
  ELSE IF f.kind \in {"invalid", "truncated"} THEN DefaultStore
  ELSE f

(***************************************************************************)
(* The remote API                                                          *)
(***************************************************************************)
ApiViewEntries ==
  [timestamp : {<<CutoffDay, 0>>, <<CutoffDay + 1, 0>>}, count : {2},
   uniques : {1}]

ApiCloneEntries ==
  [timestamp : {<<CutoffDay + 1, 0>>}, count : {1}, uniques : {1}]

RepoResponses ==
  {("stargazers_count" :> 10 @@ "forks_count" :> 3),
   ("stargazers_count" :> 15)}

RefResponses ==
  {<<>>, <<[referrer |-> "Google", count |-> 4, uniques |-> 3]>>}

ApiStates ==
  [views : {("views" :> s) : s \in SeqsUpTo(ApiViewEntries, MaxBatch)},
   clones : {("clones" :> s) : s \in SeqsUpTo(ApiCloneEntries, MaxBatch)},
   repo : RepoResponses,
   referrers : RefResponses]

Floors == {<<>>, <<CutoffDay + 1>>}

get_traffic_data(metric) == api[metric]

FetchTarget ==
  ("fetch_views" :> "views" @@ "fetch_clones" :> "clones"
   @@ "fetch_repo" :> "repo" @@ "fetch_referrers" :> "referrers")

(***************************************************************************)
(* The steps of main()                                                     *)
(***************************************************************************)
SnapshotInverted(series, day, entry) ==
  SortedByTs(Append(SelectSeq(series, LAMBDA x : x.timestamp = day), entry))

SnapshotNoRemove(series, day, entry) == SortedByTs(Append(series, entry))

Snapshot(series, day, entry) ==
  SortedByTs(Append(SelectSeq(series, LAMBDA x : x.timestamp # day), entry))

RecordCounters(val, day) ==
  LET stars == Snapshot(DictGet(val, "stars", <<>>), day,
                 [timestamp |-> day,
                  count |-> DictGet(repo_data, "stargazers_count", 0)])
      forks == Snapshot(DictGet(val, "forks", <<>>), day,
                 [timestamp |-> day,
                  count |-> DictGet(repo_data, "forks_count", 0)])
  IN  DictSet(DictSet(val, "stars", stars), "forks", forks)

RecordReferrers(val, day) ==
  DictSet(val, "referrers",
          Snapshot(DictGet(val, "referrers", <<>>), day,
                   [timestamp |-> day, data |-> ref_data]))

RetainedStrict(series, cutoff) ==
  SelectSeq(series, LAMBDA x : TsLess(cutoff, x.timestamp))

Retained(series, cutoff) ==
  SelectSeq(series, LAMBDA x : TsGeq(x.timestamp, cutoff))

Cleanup(val, cutoff) ==
  [k \in DOMAIN val |->
     IF k \in {SeriesKeys[i] : i \in 1..Len(SeriesKeys)}
     THEN Retained(val[k], cutoff) ELSE val[k]]

SnapshotRaises(d) == d.bad \cap {"stars", "forks", "referrers"} # {}

\* The process ends: normally (status 0) or through exit(1) at line 107.
Exit(code, stage) ==
  /\ pc' = "idle"
  /\ exit_code' = code
  /\ failed_at' = stage

\* Lines 47-54.  pre and prev record, for the properties, the file as the
\* run found it and how the run before ended.
Load ==
  /\ pc = "idle"
  /\ runs < MaxRuns
  /\ runs' = runs + 1
  /\ db' = LoadStore(file)
  /\ pre' = file
  /\ prev' = [exit_code |-> exit_code, today |-> today,
              one_year_ago |-> one_year_ago]
  /\ pc' = "fetch_views"
  /\ exit_code' = -1
  /\ failed_at' = ""
  /\ views_data' = EmptyDict
  /\ clones_data' = EmptyDict
  /\ repo_data' = EmptyDict
  /\ ref_data' = <<>>
  /\ UNCHANGED <<now, START_DATE, file, api, today, one_year_ago, merged>>

FetchViews ==
  /\ pc = "fetch_views"
  /\ \/ /\ views_data' = get_traffic_data("views")
        /\ pc' = "fetch_clones"
        /\ UNCHANGED <<exit_code, failed_at>>
     \/ /\ Exit(1, "views")
        /\ UNCHANGED views_data
  /\ UNCHANGED <<now, START_DATE, file, api, runs, db, clones_data, repo_data,
                 ref_data, today, one_year_ago, pre, prev, merged>>

FetchClones ==
  /\ pc = "fetch_clones"
  /\ \/ /\ clones_data' = get_traffic_data("clones")
        /\ pc' = "fetch_repo"
        /\ UNCHANGED <<exit_code, failed_at>>
     \/ /\ Exit(1, "clones")
        /\ UNCHANGED clones_data
  /\ UNCHANGED <<now, START_DATE, file, api, runs, db, views_data, repo_data,
                 ref_data, today, one_year_ago, pre, prev, merged>>

FetchRepo ==
  /\ pc = "fetch_repo"
  /\ \/ /\ repo_data' = api.repo
        /\ pc' = "fetch_referrers"
        /\ UNCHANGED <<exit_code, failed_at>>
     \/ /\ Exit(1, "repo")
        /\ UNCHANGED repo_data
  /\ UNCHANGED <<now, START_DATE, file, api, runs, db, views_data, clones_data,
                 ref_data, today, one_year_ago, pre, prev, merged>>

FetchReferrersSaving ==
  /\ pc = "fetch_referrers"
  /\ \/ /\ ref_data' = api.referrers
        /\ pc' = "merge"
        /\ UNCHANGED <<exit_code, failed_at, file>>
     \/ /\ Exit(1, "referrers")
        /\ file' = db
        /\ UNCHANGED ref_data
  /\ UNCHANGED <<now, START_DATE, api, runs, db, views_data, clones_data,
                 repo_data, today, one_year_ago, pre, prev, merged>>

FetchReferrers ==
  /\ pc = "fetch_referrers"
  /\ \/ /\ ref_data' = api.referrers
        /\ pc' = "merge"
        /\ UNCHANGED <<exit_code, failed_at>>
     \/ /\ Exit(1, "referrers")
        /\ UNCHANGED ref_data
  /\ UNCHANGED <<now, START_DATE, file, api, runs, db, views_data, clones_data,
                 repo_data, today, one_year_ago, pre, prev, merged>>

MergeAndSnapshot ==
  /\ pc = "merge"
  /\ IF MergeRaises(db, "views")
     THEN /\ Exit(1, "merge")
          /\ UNCHANGED <<db, today>>
     ELSE IF MergeRaises(db, "clones")
     THEN /\ Exit(1, "merge")
          /\ db' = Doc("dict",
                       DictSet(db.val, "views",
                               merge_data(db, views_data, "views")),
                       db.bad)
          /\ UNCHANGED today
     ELSE LET v == DictSet(db.val, "views",
                           merge_data(db, views_data, "views"))
              c == DictSet(v, "clones",
                           merge_data(Doc("dict", v, db.bad), clones_data,
                                      "clones"))
          IN  /\ today' = DayStart(now)
              /\ IF SnapshotRaises(db)
                 THEN /\ Exit(1, "snapshot")
                      /\ db' = Doc("dict", c, db.bad)
                 ELSE /\ db' = Doc("dict",
                                   RecordReferrers(
                                     RecordCounters(c, DayStart(now)),
                                     DayStart(now)),
                                   db.bad)
                      /\ pc' = "cleanup"
                      /\ UNCHANGED <<exit_code, failed_at>>
  /\ UNCHANGED <<now, START_DATE, file, api, runs, views_data, clones_data,
                 repo_data, ref_data, one_year_ago, pre, prev, merged>>

CleanupOld ==
  /\ pc = "cleanup"
  /\ one_year_ago' = DayStartMinus(now, RetentionDays)
  /\ db' = Doc("dict", Cleanup(db.val, DayStartMinus(now, RetentionDays)),
               db.bad)
  /\ pc' = "save"
  /\ UNCHANGED <<now, START_DATE, file, api, runs, views_data, clones_data,
                 repo_data, ref_data, today, exit_code, failed_at, pre,
                 prev, merged>>

\* Lines 97-101: open() may fail before it truncates the file; once the
\* file is open in 'w' mode it is empty, and a failing json.dump leaves it
\* empty or partly written.
Save ==
  /\ pc = "save"
  /\ db' = Doc("dict", DictSet(db.val, "updated_at", Stamp(now)), db.bad)
  /\ \/ /\ Exit(1, "open")
        /\ UNCHANGED file
     \/ /\ Exit(1, "dump")
        /\ file' = TruncatedFile
     \/ /\ Exit(0, "")
        /\ file' = db'
  /\ UNCHANGED <<now, START_DATE, api, runs, views_data, clones_data,
                 repo_data, ref_data, today, one_year_ago, pre, prev, merged>>

\* The clock advances at any moment, also between the three utcnow() calls
\* of one run (lines 76, 91 and 97).
Tick ==
  /\ \/ /\ now[2] < MaxTod
        /\ now' = <<now[1], now[2] + 1>>
     \/ /\ now[1] < FirstDay + MaxDayTicks
        /\ now' = <<now[1] + 1, 0>>
  /\ UNCHANGED <<START_DATE, file, api, runs, pc, db, views_data, clones_data,
                 repo_data, ref_data, today, one_year_ago, exit_code,
                 failed_at, pre, prev, merged>>

\* The remote's data changes.  A change is seen only by the next fetch of
\* that endpoint, so it is taken right before that fetch.
RemoteChange ==
  /\ pc \in DOMAIN FetchTarget
  /\ \E a \in ApiStates :
       /\ a # api
       /\ \A m \in DOMAIN a : m # FetchTarget[pc] => a[m] = api[m]
       /\ api' = a
  /\ UNCHANGED <<now, START_DATE, file, runs, pc, db, views_data, clones_data,
                 repo_data, ref_data, today, one_year_ago, exit_code,
                 failed_at, pre, prev, merged>>

NoRun == [exit_code |-> -1, today |-> <<0, 0>>, one_year_ago |-> <<0, 0>>]

Init ==
  /\ now = <<FirstDay, 0>>
  /\ runs = 0
  /\ START_DATE \in Floors
  /\ file \in InitFiles
  /\ api \in ApiStates
  /\ pc = "idle"
  /\ db = DefaultStore
  /\ views_data = EmptyDict
  /\ clones_data = EmptyDict
  /\ repo_data = EmptyDict
  /\ ref_data = <<>>
  /\ today = <<0, 0>>
  /\ one_year_ago = <<0, 0>>
  /\ exit_code = -1
  /\ failed_at = ""
  /\ pre = file
  /\ prev = NoRun
  /\ merged = <<>>

Run ==
  \/ Load
  \/ FetchViews
  \/ FetchClones
  \/ FetchRepo
  \/ FetchReferrers
  \/ MergeAndSnapshot
  \/ CleanupOld
  \/ Save

Next == Run \/ Tick \/ RemoteChange

Spec == Init /\ [][Next]_vars

NextRerun == Run \/ Tick

SpecRerun == Init /\ [][NextRerun]_vars

(***************************************************************************)
(* merge_data on its own: an existing series, an incoming batch and a date *)
(* floor are chosen, then merge_data is applied twice, the second time to  *)
(* the result of the first.                                                *)
(***************************************************************************)
ExistingEntries ==
  [timestamp : {<<0, 0>>, <<0, 1>>, <<1, 0>>}, count : {5}, uniques : {4}]
  \cup [timestamp : {<<0, 0>>, <<0, 1>>, <<1, 0>>}, count : {6},
        uniques : {4}, note : {"kept"}]

IncomingEntries ==
  [timestamp : {<<0, 0>>, <<0, 1>>, <<1, 0>>}, count : {1, 2}, uniques : {1}]
  \cup [timestamp : {<<0, 0>>, <<0, 1>>, <<1, 0>>}, count : {3},
        uniques : {2}, extra : {"dropped"}]

MergeFloors == {<<>>, <<1>>}

QuietApi ==
  [views |-> ("views" :> <<>>), clones |-> ("clones" :> <<>>),
   repo |-> ("stargazers_count" :> 15), referrers |-> <<>>]

InitMerge ==
  /\ now = <<FirstDay, 0>>
  /\ runs = 0
  /\ START_DATE \in MergeFloors
  /\ file = MissingFile
  /\ api = QuietApi
  /\ pc = "merge_data"
  /\ \E s \in SeqsUpTo(ExistingEntries, MaxExisting) :
       db = Doc("dict", ("views" :> s), {})
  /\ \E s \in SeqsUpTo(IncomingEntries, MaxIncoming) :
       views_data = ("views" :> s)
  /\ clones_data = EmptyDict
  /\ repo_data = EmptyDict
  /\ ref_data = <<>>
  /\ today = <<0, 0>>
  /\ one_year_ago = <<0, 0>>
  /\ exit_code = -1
  /\ failed_at = ""
  /\ pre = file
  /\ prev = NoRun
  /\ merged = <<>>

MergeAgain ==
  /\ pc = "merge_data"
  /\ Len(merged) < 2
  /\ merged' =
       Append(merged,
              merge_data(IF merged = <<>> THEN db
                         ELSE Doc("dict",
                                  DictSet(db.val, "views",
                                          merged[Len(merged)]),
                                  db.bad),
                         views_data, "views"))
  /\ UNCHANGED <<now, START_DATE, file, api, runs, pc, db, views_data,
                 clones_data, repo_data, ref_data, today, one_year_ago,
                 exit_code, failed_at, pre, prev>>

NextMerge == MergeAgain

SpecMerge == InitMerge /\ [][NextMerge]_vars

(***************************************************************************)
(* Vocabulary of the properties                                            *)
(***************************************************************************)
TsOf(s) == {s[i].timestamp : i \in 1..Len(s)}

EntriesAt(s, t) == SelectSeq(s, LAMBDA x : x.timestamp = t)

OtherThan(s, t) == SelectSeq(s, LAMBDA x : x.timestamp # t)

LastAt(s, t) == LET at == EntriesAt(s, t) IN at[Len(at)]

ApiRecord(b) ==
  [timestamp |-> b.timestamp, count |-> b.count, uniques |-> b.uniques]

PassesFloor(t) == START_DATE = <<>> \/ t[1] >= START_DATE[1]

SeriesOf(f, k) == IF k \in DOMAIN f.val THEN f.val[k] ELSE <<>>

SeriesKeySet == {SeriesKeys[i] : i \in 1..Len(SeriesKeys)}

FetchStages == {"views", "clones", "repo", "referrers"}

SameDayRerun ==
  /\ pc = "idle"
  /\ exit_code = 0
  /\ prev.exit_code = 0
  /\ prev.today = today
  /\ prev.one_year_ago = one_year_ago
  /\ one_year_ago = <<today[1] - RetentionDays, 0>>

(***************************************************************************)
(* C1  Fetch-failure atomicity: while a run is under way the file is what  *)
(* it was when the run started, and after a run in which the views,        *)
(* clones, repository or referrers fetch failed the file is still          *)
(* identical to its content before the run.                                *)
(***************************************************************************)
FetchFailureAtomic ==
  (pc \notin {"idle", "merge_data"} \/ failed_at \in FetchStages)
    => file = pre

FetchFailureWitness ==
  /\ pc = "idle"
  /\ exit_code = 1
  /\ failed_at = "referrers"
  /\ views_data # EmptyDict
  /\ clones_data # EmptyDict
  /\ file = OldStore

(***************************************************************************)
(* C2  Write-failure atomicity: when json.dump fails after the file has    *)
(* been opened for writing, the run exits with status 1 and the file is    *)
(* in its pre-run state.                                                   *)
(***************************************************************************)
WriteFailureAtomic ==
  failed_at = "dump" => (exit_code = 1 /\ file = pre)

(***************************************************************************)
(* C3  Merge idempotence: merging the same batch into the result of the    *)
(* merge gives the result of the merge.                                    *)
(***************************************************************************)
MergeIdempotent == Len(merged) = 2 => merged[2] = merged[1]

MergeIdempotentWitness ==
  /\ Len(merged) = 2
  /\ START_DATE # <<>>
  /\ merged[1] # db.val["views"]
  /\ Len(merged[1]) >= 2
  /\ \E t \in TsOf(views_data["views"]) : ~PassesFloor(t)
  /\ \E t \in TsOf(views_data["views"]) : t \in TsOf(db.val["views"])

(***************************************************************************)
(* C4  Merge union-with-override, as stated: a timestamp only in E keeps   *)
(* E's record, a timestamp in both E and B gets B's record, a timestamp    *)
(* only in B that passes the floor gets B's record, and the result has no  *)
(* other timestamp.  (Where a series repeats a timestamp its record is the *)
(* last one.)                                                              *)
(***************************************************************************)
UnionWithOverride ==
  Len(merged) >= 1 =>
    LET E == db.val["views"]
        B == views_data["views"]
        R == merged[1]
    IN  /\ \A t \in TsOf(E) \ TsOf(B) : EntriesAt(R, t) = <<LastAt(E, t)>>
        /\ \A t \in TsOf(E) \cap TsOf(B) :
             EntriesAt(R, t) = <<ApiRecord(LastAt(B, t))>>
        /\ \A t \in TsOf(B) \ TsOf(E) :
             PassesFloor(t) => EntriesAt(R, t) = <<ApiRecord(LastAt(B, t))>>
        /\ TsOf(R) \subseteq TsOf(E) \cup {t \in TsOf(B) : PassesFloor(t)}

(***************************************************************************)
(* C4 amended: a timestamp in both E and B gets B's record only when it    *)
(* passes the floor; when it does not, E's record stays.                   *)
(***************************************************************************)
UnionWithOverrideAboveFloor ==
  Len(merged) >= 1 =>
    LET E == db.val["views"]
        B == views_data["views"]
        R == merged[1]
    IN  /\ \A t \in TsOf(E) \ TsOf(B) : EntriesAt(R, t) = <<LastAt(E, t)>>
        /\ \A t \in TsOf(E) \cap TsOf(B) :
             EntriesAt(R, t) = IF PassesFloor(t)
                               THEN <<ApiRecord(LastAt(B, t))>>
                               ELSE <<LastAt(E, t)>>
        /\ \A t \in TsOf(B) \ TsOf(E) :
             PassesFloor(t) => EntriesAt(R, t) = <<ApiRecord(LastAt(B, t))>>
        /\ TsOf(R) \subseteq TsOf(E) \cup {t \in TsOf(B) : PassesFloor(t)}

UnionWithOverrideWitness ==
  /\ Len(merged) >= 1
  /\ START_DATE # <<>>
  /\ \E t \in TsOf(db.val["views"]) \cap TsOf(views_data["views"]) :
       ~PassesFloor(t)
  /\ \E t \in TsOf(db.val["views"]) \cap TsOf(views_data["views"]) :
       PassesFloor(t) /\ t[1] = START_DATE[1]

(***************************************************************************)
(* C5  Date-floor exclusion: with a floor F set, the merge step leaves, at *)
(* the timestamp of every incoming record whose day is before F, exactly   *)
(* what the store held there; and once views and clones on disk hold no    *)
(* entry earlier than F (as an empty store does) no step changes that.     *)
(***************************************************************************)
NoneBeforeFloor(f) ==
  (START_DATE # <<>> /\ f.kind = "dict") =>
    \A k \in {"views", "clones"} :
      \A t \in TsOf(SeriesOf(f, k)) : t[1] >= START_DATE[1]

Incoming(k) == IF k = "views" THEN views_data[k] ELSE clones_data[k]

FloorExclusion ==
  [][/\ (pc = "merge" /\ pc' = "cleanup" /\ START_DATE # <<>>) =>
          \A k \in {"views", "clones"} :
            \A t \in TsOf(Incoming(k)) :
              t[1] < START_DATE[1] =>
                EntriesAt(SeriesOf(db', k), t) = EntriesAt(SeriesOf(db, k), t)
     /\ NoneBeforeFloor(file) => NoneBeforeFloor(file')]_vars

FloorExclusionWitness ==
  /\ pc = "idle"
  /\ exit_code = 0
  /\ START_DATE # <<>>
  /\ pre.kind = "missing"
  /\ \E t \in TsOf(views_data["views"]) : t[1] < START_DATE[1]
  /\ file.kind = "dict"
  /\ clones_data["clones"] # <<>>

(***************************************************************************)
(* C6  Snapshot daily replace: after a successful run that follows a       *)
(* successful run of the same UTC day, stars, forks and referrers each     *)
(* hold exactly one entry for that day, carrying the value the second run  *)
(* observed, and their entries of other days are as the first run left     *)
(* them.                                                                   *)
(***************************************************************************)
Observed(k) ==
  IF k = "stars"
  THEN [timestamp |-> today,
        count |-> IF "stargazers_count" \in DOMAIN repo_data
                  THEN repo_data["stargazers_count"] ELSE 0]
  ELSE IF k = "forks"
  THEN [timestamp |-> today,
        count |-> IF "forks_count" \in DOMAIN repo_data
                  THEN repo_data["forks_count"] ELSE 0]
  ELSE [timestamp |-> today, data |-> ref_data]

SnapshotDailyReplace ==
  SameDayRerun =>
    \A k \in {"stars", "forks", "referrers"} :
      /\ EntriesAt(SeriesOf(file, k), today) = <<Observed(k)>>
      /\ OtherThan(SeriesOf(file, k), today) = OtherThan(SeriesOf(pre, k), today)

SnapshotDailyReplaceWitness ==
  /\ SameDayRerun
  /\ \A k \in {"stars", "forks", "referrers"} :
       /\ Len(EntriesAt(SeriesOf(pre, k), today)) = 1
       /\ EntriesAt(SeriesOf(pre, k), today) # <<Observed(k)>>
  /\ Len(OtherThan(SeriesOf(file, "stars"), today)) >= 1

(***************************************************************************)
(* C7  Retention window: the cleanup step keeps exactly the entries whose  *)
(* timestamp is not less than now minus 365 days at day start, one equal   *)
(* to the cutoff included, and a successful save writes the five series as *)
(* cleanup left them, so the written store holds nothing older.            *)
(***************************************************************************)
RetentionWindow ==
  [][/\ (pc = "cleanup" /\ pc' = "save") =>
          LET cutoff == <<now[1] - RetentionDays, 0>>
          IN  \A k \in SeriesKeySet \cap DOMAIN db.val :
                /\ \A t \in TsOf(SeriesOf(db', k)) : ~TsLess(t, cutoff)
                /\ \A i \in 1..Len(db.val[k]) :
                     ~TsLess(db.val[k][i].timestamp, cutoff) =>
                       \E j \in 1..Len(SeriesOf(db', k)) :
                         db'.val[k][j] = db.val[k][i]
     /\ (pc = "save" /\ pc' = "idle" /\ exit_code' = 0) =>
          /\ file'.kind = "dict"
          /\ \A k \in SeriesKeySet :
               /\ SeriesOf(file', k) = SeriesOf(db, k)
               /\ \A t \in TsOf(SeriesOf(file', k)) : ~TsLess(t, one_year_ago)]_vars

RetentionWindowWitness ==
  /\ pc = "idle"
  /\ exit_code = 0
  /\ \E t \in TsOf(SeriesOf(pre, "views")) : TsLess(t, one_year_ago)
  /\ one_year_ago \in TsOf(SeriesOf(file, "views"))
  /\ one_year_ago \in TsOf(SeriesOf(file, "stars"))

(***************************************************************************)
(* C8  Load tolerance: whatever the file holds that is not a store of the  *)
(* expected structure, the load step yields the empty default store, and   *)
(* no run fails in the merge or snapshot step because of what was loaded.  *)
(***************************************************************************)
ExpectedStructure(f) == f.kind = "dict" /\ f.bad = {}

LoadTolerance ==
  /\ (pc = "fetch_views" /\ ~ExpectedStructure(pre)) => db = DefaultStore
  /\ failed_at \notin {"merge", "snapshot"}

(***************************************************************************)
(* C9  Series well-formedness: each series of the store on disk is sorted  *)
(* strictly ascending by timestamp, hence has pairwise distinct            *)
(* timestamps.                                                             *)
(***************************************************************************)
Ascending(s) ==
  \A i \in 1..Len(s) : \A j \in 1..Len(s) :
    i < j => TsLess(s[i].timestamp, s[j].timestamp)

SeriesWellFormed ==
  file.kind = "dict" =>
    \A k \in SeriesKeySet \cap DOMAIN file.val : Ascending(file.val[k])

SeriesWellFormedWitness ==
  /\ pc = "idle"
  /\ exit_code = 0
  /\ prev.exit_code = 0
  /\ file # pre
  /\ Len(SeriesOf(file, "views")) >= 2
  /\ Len(SeriesOf(file, "stars")) >= 2
  /\ Len(SeriesOf(file, "referrers")) >= 1

(***************************************************************************)
(* C10  Re-run idempotence: with the remote answering the same, a          *)
(* successful run that follows a successful run of the same UTC day writes *)
(* the five series exactly as the first run wrote them.                    *)
(***************************************************************************)
RerunIdempotent ==
  SameDayRerun => \A k \in SeriesKeySet : SeriesOf(file, k) = SeriesOf(pre, k)

RerunIdempotentWitness ==
  /\ SameDayRerun
  /\ file.kind = "dict"
  /\ views_data = api.views
  /\ file.val["updated_at"] # pre.val["updated_at"]
  /\ Len(SeriesOf(file, "views")) >= 1
  /\ Len(SeriesOf(file, "clones")) >= 1
  /\ Len(SeriesOf(file, "forks")) >= 1

====
